---- MODULE Spec2Model ----
(***************************************************************************)
(* Story Agent (Flask): the request handling of src/app.py and the payload *)
(* helpers of src/utils.py.                                                *)
(*                                                                         *)
(* JSON values are tagged records; a JSON string is a sequence of          *)
(* one-character strings, so that str.strip() is computed and not assumed. *)
(* Python exceptions are outcomes of the operators that can raise.         *)
(***************************************************************************)
EXTENDS Integers, Sequences, FiniteSets, TLC

VARIABLES pc, req, resp, rpc_id, text_input, prompt, genCalls, genOutcome,
          content, nresp, failed, groq_client

vars == <<pc, req, resp, rpc_id, text_input, prompt, genCalls, genOutcome,
          content, nresp, failed, groq_client>>

(***************************************************************************)
(* Bounds of the explored inputs.                                          *)
(***************************************************************************)
MaxTextLen == 2
MaxParts == 2
MaxMessages == 2

(***************************************************************************)
(* JSON values as Python sees them after request.get_json().               *)
(***************************************************************************)
Absent == [t |-> "absent"]
Null == [t |-> "null"]
Str(s) == [t |-> "str", v |-> s]
Num(n) == [t |-> "num", v |-> n]
Bool(b) == [t |-> "bool", v |-> b]
Arr(a) == [t |-> "arr", v |-> a]
Obj(f) == [t |-> "obj", v |-> [k \in {x \in DOMAIN f : f[x] # Absent} |-> f[k]]]
Unparsable == [t |-> "unparsable"]

JSONRPC_2_0 == <<"2", ".", "0">>
JSONRPC_1_0 == <<"1", ".", "0">>
MESSAGE_SEND == <<"m", "e", "s", "s", "a", "g", "e", "/", "s", "e", "n", "d">>
EXECUTE == <<"e", "x", "e", "c", "u", "t", "e">>
TEXT == <<"t", "e", "x", "t">>
DATA == <<"d", "a", "t", "a">>
MESSAGE_CREATED == <<"m", "e", "s", "s", "a", "g", "e", "_", "c", "r", "e", "a", "t", "e", "d">>

(***************************************************************************)
(* Python semantics used by the handler.                                   *)
(***************************************************************************)
Whitespace == {" ", "\t", "\n", "\r", "\f"}

RECURSIVE lstrip(_)
lstrip(s) == IF s # <<>> /\ Head(s) \in Whitespace THEN lstrip(Tail(s)) ELSE s

RECURSIVE rstrip(_)
rstrip(s) == IF s # <<>> /\ s[Len(s)] \in Whitespace
             THEN rstrip(SubSeq(s, 1, Len(s) - 1)) ELSE s

\* the text taken as it is, without .strip()
strip_omitted(s) == s

strip(s) == rstrip(lstrip(s))

isinstance_dict(x) == x.t = "obj"
isinstance_str(x) == x.t = "str"

\* dict.get(k, default); the caller has established that d is a dict
dict_get(d, k, default) == IF k \in DOMAIN d.v THEN d.v[k] ELSE default

\* bool(x)
Truthy(x) == CASE x.t = "null" -> FALSE
               [] x.t = "bool" -> x.v
               [] x.t = "num" -> x.v # 0
               [] x.t = "str" -> x.v # <<>>
               [] x.t = "arr" -> x.v # <<>>
               [] x.t = "obj" -> DOMAIN x.v # {}
               [] OTHER -> FALSE

RECURSIVE SetToSeq(_)
SetToSeq(S) == IF S = {} THEN <<>>
               ELSE LET x == CHOOSE y \in S : TRUE IN <<x>> \o SetToSeq(S \ {x})

\* iter(x): the elements a for loop visits, or TypeError
Iterable(x) == x.t \in {"arr", "str", "obj"}
Elements(x) == CASE x.t = "arr" -> x.v
                 [] x.t = "str" -> [i \in 1..Len(x.v) |-> Str(<<x.v[i]>>)]
                 [] x.t = "obj" -> LET ks == SetToSeq(DOMAIN x.v)
                                   IN [i \in 1..Len(ks) |-> Str(<<ks[i]>>)]

Raise(e) == [k |-> "raise", e |-> e]
Ok(x) == [k |-> "ok", val |-> x]

(***************************************************************************)
(* src/utils.py                                                            *)
(***************************************************************************)
is_valid_telex_payload(body) ==
    /\ isinstance_dict(body)
    /\ dict_get(body, "event", Null) = Str(MESSAGE_CREATED)
    /\ isinstance_dict(dict_get(body, "message", Null))
    /\ isinstance_str(dict_get(dict_get(body, "message", Null), "text", Null))

make_a2a_response(text) == [data |-> [response_type |-> "in_channel", text |-> text]]

(***************************************************************************)
(* src/app.py: responses                                                   *)
(***************************************************************************)
AGENT_METADATA ==
    [name |-> "Story Agent",
     description |-> "Takes in a phrase and returns a short (less than 250-word) story.",
     version |-> "1.0.0",
     author |-> "Ifeoluwa Adewumi",
     language |-> "Python",
     framework |-> "Flask",
     provider |-> "Groq",
     a2a |-> [endpoints |-> <<[name |-> "Story Generator",
                               path |-> "/a2a/story-agent",
                               description |-> "Generates a story based on the provided phrase",
                               method |-> "POST"]>>],
     health_url |-> "/health",
     repo |-> "https://github.com/ifeadewumi/story-agent-flask",
     logo_url |-> "https://i.ibb.co/Jc0Hkqs/story-logo.png"]

\* a response produced by a view function: jsonify(body), status
Response(status, body) == [status |-> status, source |-> "view", body |-> body]

\* the response Flask itself produces for an exception that leaves a
\* before_request function or a view function
FlaskErrorResponse(status) ==
    [status |-> status, source |-> "flask", body |-> [html |-> "error page"]]

InvalidRequestResponse(id) ==
    Response(400, [jsonrpc |-> "2.0", id |-> id,
                   error |-> [code |-> -32600,
                              message |-> "Invalid Request: jsonrpc must be '2.0' and 'id' is required."]])

UnsupportedMethodResponse(id) ==
    Response(400, [jsonrpc |-> "2.0", id |-> id,
                   error |-> [code |-> -32601, message |-> "Unsupported method"]])

MissingTextResponse(id) ==
    Response(400, [jsonrpc |-> "2.0", id |-> id,
                   error |-> [code |-> -32602, message |-> "Missing text input in request."]])

InternalErrorBody(id, details) ==
    [jsonrpc |-> "2.0", id |-> id,
     error |-> [code |-> -32603, message |-> "Internal error",
                data |-> [details |-> details]]]

TaskResult(task_id, context_id, timestamp, story) ==
    [id |-> task_id,
     contextId |-> context_id,
     status |-> [state |-> "completed",
                 timestamp |-> timestamp,
                 message |-> [kind |-> "message", role |-> "agent",
                              parts |-> <<[kind |-> "text", text |-> story]>>]],
     artifacts |-> <<>>,
     history |-> <<>>,
     kind |-> "task"]

SuccessResponse(id, result) ==
    Response(200, [jsonrpc |-> "2.0", id |-> id, result |-> result])

\* the except clause: body.get("id") if "body" in locals() else None.
\* body.get raises again when body is bound to a value that is not a dict,
\* and that exception leaves the view function.
except_response_null_id(body_bound, body, e) ==
    Response(500, InternalErrorBody(Null, e))

except_response(body_bound, body, e) ==
    IF ~body_bound THEN Response(500, InternalErrorBody(Null, e))
    ELSE IF ~isinstance_dict(body) THEN FlaskErrorResponse(500)
    ELSE Response(500, InternalErrorBody(dict_get(body, "id", Null), e))

(***************************************************************************)
(* src/app.py: story_agent, from the start of the try block up to the call *)
(* of the generator.                                                       *)
(***************************************************************************)
\* line 74 with the test of "id" forgotten
InvalidRequest_jsonrpc_only(body) == dict_get(body, "jsonrpc", Null) # Str(JSONRPC_2_0)

InvalidRequest(body) ==
    \/ dict_get(body, "jsonrpc", Null) # Str(JSONRPC_2_0)
    \/ "id" \notin DOMAIN body.v

\* params.get("message", {}).get("parts", [])
MessageSendParts(params) ==
    IF ~isinstance_dict(params) THEN Raise("AttributeError")
    ELSE LET message == dict_get(params, "message", Obj(<<>>))
         IN IF ~isinstance_dict(message) THEN Raise("AttributeError")
            ELSE Ok(dict_get(message, "parts", Arr(<<>>)))

\* x[-1]
LastItem(x) == CASE x.t = "arr" -> Ok(x.v[Len(x.v)])
                 [] x.t = "str" -> Ok(Str(<<x.v[Len(x.v)]>>))
                 [] x.t = "obj" -> Raise("KeyError")
                 [] OTHER -> Raise("TypeError")

\* x[0], in place of x[-1]
FirstItem(x) == CASE x.t = "arr" -> Ok(x.v[1])
                  [] x.t = "str" -> Ok(Str(<<x.v[1]>>))
                  [] x.t = "obj" -> Raise("KeyError")
                  [] OTHER -> Raise("TypeError")

\* messages[0].get("parts", []) if messages else []
ExecuteParts_first(params) ==
    IF ~isinstance_dict(params) THEN Raise("AttributeError")
    ELSE LET messages == dict_get(params, "messages", Arr(<<>>))
         IN IF ~Truthy(messages) THEN Ok(Arr(<<>>))
            ELSE LET first == FirstItem(messages)
                 IN IF first.k = "raise" THEN first
                    ELSE IF ~isinstance_dict(first.val) THEN Raise("AttributeError")
                    ELSE Ok(dict_get(first.val, "parts", Arr(<<>>)))

\* messages[-1].get("parts", []) if messages else []
ExecuteParts(params) ==
    IF ~isinstance_dict(params) THEN Raise("AttributeError")
    ELSE LET messages == dict_get(params, "messages", Arr(<<>>))
         IN IF ~Truthy(messages) THEN Ok(Arr(<<>>))
            ELSE LET last == LastItem(messages)
                 IN IF last.k = "raise" THEN last
                    ELSE IF ~isinstance_dict(last.val) THEN Raise("AttributeError")
                    ELSE Ok(dict_get(last.val, "parts", Arr(<<>>)))

\* the if / elif / else over method with a missing method taken as message/send
CandidateParts_default_send(method, params) ==
    IF method = Str(MESSAGE_SEND) \/ method = Null THEN MessageSendParts(params)
    ELSE IF method = Str(EXECUTE) THEN ExecuteParts(params)
    ELSE [k |-> "unsupported"]

\* the if / elif / else over method
CandidateParts(method, params) ==
    IF method = Str(MESSAGE_SEND) THEN MessageSendParts(params)
    ELSE IF method = Str(EXECUTE) THEN ExecuteParts(params)
    ELSE [k |-> "unsupported"]

\* the for loop over parts, from element i on; text_input starts as ""
RECURSIVE ScanParts(_, _)
ScanParts(parts, i) ==
    IF i > Len(parts) THEN Ok(<<>>)
    ELSE LET part == parts[i]
         IN IF ~isinstance_dict(part) THEN Raise("AttributeError")
            ELSE IF /\ dict_get(part, "kind", Null) = Str(TEXT)
                    /\ Truthy(dict_get(part, "text", Null))
                 THEN IF isinstance_str(part.v["text"])
                      THEN Ok(strip(part.v["text"].v))
                      ELSE Raise("AttributeError")
                 ELSE ScanParts(parts, i + 1)

ExtractText(parts) ==
    IF ~Iterable(parts) THEN Raise("TypeError")
    ELSE ScanParts(Elements(parts), 1)

\* line 109 with the test left out
MissingText_never(text) == FALSE

\* not text_input
MissingText(text) == text = <<>>

\* the f-string of line 117: the fixed words, the phrase, the closing quote
Prompt(text) ==
    <<"Write a short story (under 250 words) based on the phrase: '">> \o text \o <<"'">>

\* body["id"]
BodyId(body) == IF "id" \in DOMAIN body.v THEN Ok(body.v["id"]) ELSE Raise("KeyError")

story_agent_try(data) ==
    IF data = Unparsable
    THEN [k |-> "raise", e |-> "BadRequest", body_bound |-> FALSE]
    ELSE IF ~isinstance_dict(data)
    THEN [k |-> "raise", e |-> "AttributeError", body_bound |-> TRUE]
    ELSE IF InvalidRequest(data)
    THEN [k |-> "return", resp |-> InvalidRequestResponse(dict_get(data, "id", Null))]
    ELSE LET id == BodyId(data)
             method == dict_get(data, "method", Null)
             params == dict_get(data, "params", Obj(<<>>))
         IN IF id.k = "raise"
            THEN [k |-> "raise", e |-> id.e, body_bound |-> TRUE]
            ELSE LET cp == CandidateParts(method, params)
                 IN IF cp.k = "unsupported"
                    THEN [k |-> "return", resp |-> UnsupportedMethodResponse(id.val)]
                    ELSE IF cp.k = "raise"
                    THEN [k |-> "raise", e |-> cp.e, body_bound |-> TRUE]
                    ELSE LET t == ExtractText(cp.val)
                         IN IF t.k = "raise"
                            THEN [k |-> "raise", e |-> t.e, body_bound |-> TRUE]
                            ELSE IF MissingText(t.val)
                            THEN [k |-> "return", resp |-> MissingTextResponse(id.val)]
                            ELSE [k |-> "call", rpc_id |-> id.val, text_input |-> t.val]

(***************************************************************************)
(* The requests the service is sent.                                       *)
(***************************************************************************)
SeqsUpTo(S, n) == UNION {[1..k -> S] : k \in 0..n}

Chars == {" ", "a"}
Texts == SeqsUpTo(Chars, MaxTextLen)

\* the values of a part's "text": missing, a number, a string
TextVals == {Absent, Num(5)} \cup {Str(s) : s \in Texts}

Part(kind, text) == Obj([kind |-> kind, text |-> text])

Parts == {Part(Str(TEXT), tv) : tv \in TextVals}
         \cup {Part(Str(DATA), Absent), Part(Str(DATA), Str(<<"a">>)), Null}

PartsVals == {Arr(ps) : ps \in SeqsUpTo(Parts, MaxParts)} \cup {Absent, Null}

Messages == {Obj([parts |-> pv]) : pv \in PartsVals} \cup {Null}

MessageSendParams ==
    {Obj([message |-> m]) : m \in Messages \cup {Absent}} \cup {Absent, Null, Arr(<<>>)}

\* the elements of params.messages before the last one, and the last
\* elements that follow them
EarlierMessages == {Obj([parts |-> Arr(<<Part(Str(TEXT), Str(<<"a">>))>>)]), Null}
LastMessages == {Obj([parts |-> Arr(<<p>>)]) : p \in Parts} \cup {Obj([parts |-> Absent]), Null}

ExecuteParams ==
    {Obj([messages |-> Arr(<<m>>)]) : m \in Messages}
    \cup {Obj([messages |-> Arr(e \o <<m>>)]) :
            e \in SeqsUpTo(EarlierMessages, MaxMessages - 1) \ {<<>>}, m \in LastMessages}
    \cup {Obj([messages |-> x]) : x \in {Absent, Null, Arr(<<>>), Str(<<"a">>), Num(5)}}
    \cup {Absent, Null}

RpcBody(jsonrpc, id, method, params) ==
    Obj([jsonrpc |-> jsonrpc, id |-> id, method |-> method, params |-> params])

\* well-formed envelopes around every params value
ValidIds == {Num(1)}
WellFormedBodies ==
    {RpcBody(Str(JSONRPC_2_0), id, Str(MESSAGE_SEND), p) : id \in ValidIds, p \in MessageSendParams}
    \cup {RpcBody(Str(JSONRPC_2_0), id, Str(EXECUTE), p) : id \in ValidIds, p \in ExecuteParams}

\* every envelope around a few params values
JsonrpcVals == {Absent, Null, Str(JSONRPC_2_0), Str(JSONRPC_1_0), Num(2)}
IdVals == {Absent, Null, Num(1), Str(<<"a">>)}
MethodVals == {Absent, Null, Str(MESSAGE_SEND), Str(EXECUTE), Str(TEXT), Num(5)}
SomeParams ==
    {Absent, Null, Num(5),
     Obj([message |-> Obj([parts |-> Arr(<<Part(Str(TEXT), Str(<<"a">>))>>)])]),
     Obj([messages |-> Arr(<<Obj([parts |-> Arr(<<Part(Str(TEXT), Str(<<"a">>))>>)])>>)])}
EnvelopeBodies ==
    {RpcBody(j, id, m, p) : j \in JsonrpcVals, id \in IdVals, m \in MethodVals, p \in SomeParams}

\* payloads of the Telex shape
TelexBodies ==
    {Obj([event |-> ev, message |-> msg]) :
        ev \in {Absent, Str(MESSAGE_CREATED), Str(TEXT)},
        msg \in {Absent, Null, Obj([text |-> Str(<<"a">>)]), Obj([text |-> Str(<<>>)]),
                 Obj([text |-> Num(5)])}}

\* bodies that are not a JSON object
NonObjectBodies == {Unparsable, Null, Num(5), Str(<<"a">>), Arr(<<>>), Arr(<<Num(1)>>)}

Request(method, path, is_json, data) ==
    [method |-> method, path |-> path, is_json |-> is_json, data |-> data]

NoRequest == Request("", "", FALSE, Absent)

PostRequests ==
    {Request("POST", "/a2a/story-agent", TRUE, b) :
        b \in WellFormedBodies \cup EnvelopeBodies \cup TelexBodies \cup NonObjectBodies}
    \cup {Request("POST", "/a2a/story-agent", FALSE, b) : b \in NonObjectBodies}

GetRequests == {Request("GET", "/", FALSE, Absent), Request("GET", "/health", FALSE, Absent)}

Requests == PostRequests \cup GetRequests

\* what the provider answers: message.content is a string or None
Contents == {Str(s) : s \in Texts} \cup {Null}
UUIDs == {"uuid-1", "uuid-2"}
NoResponse == [status |-> 0, source |-> "", body |-> <<>>]

(***************************************************************************)
(* The service: one request at a time goes through before_request, the     *)
(* view function of its route and, for story_agent, the provider call.     *)
(***************************************************************************)
Init ==
    /\ pc = "idle"
    /\ req = NoRequest
    /\ resp = NoResponse
    /\ rpc_id = Null
    /\ text_input = <<>>
    /\ prompt = <<>>
    /\ genCalls = 0
    /\ genOutcome = "none"
    /\ content = Absent
    /\ nresp = 0
    /\ failed = FALSE
    /\ groq_client = "Groq"

\* a request arrives
Receive ==
    /\ pc = "idle"
    /\ pc' = "before_request"
    /\ \E r \in Requests : req' = r
    /\ resp' = NoResponse
    /\ rpc_id' = Null
    /\ text_input' = <<>>
    /\ prompt' = <<>>
    /\ genCalls' = 0
    /\ genOutcome' = "none"
    /\ content' = Absent
    /\ nresp' = 0
    /\ UNCHANGED <<failed, groq_client>>

\* before_request: request.get_json() raises BadRequest on a body that
\* claims to be JSON and does not parse, and Flask answers with its 400 page
log_request ==
    /\ pc = "before_request"
    /\ IF req.is_json /\ req.data = Unparsable
       THEN /\ resp' = FlaskErrorResponse(400)
            /\ nresp' = nresp + 1
            /\ pc' = "done"
       ELSE /\ pc' = "view"
            /\ UNCHANGED <<resp, nresp>>
    /\ UNCHANGED <<req, rpc_id, text_input, prompt, genCalls, genOutcome, content,
                 failed, groq_client>>

metadata ==
    /\ pc = "view"
    /\ req.method = "GET" /\ req.path = "/"
    /\ resp' = Response(200, AGENT_METADATA)
    /\ nresp' = nresp + 1
    /\ pc' = "done"
    /\ UNCHANGED <<req, rpc_id, text_input, prompt, genCalls, genOutcome, content,
                 failed, groq_client>>

health ==
    /\ pc = "view"
    /\ req.method = "GET" /\ req.path = "/health"
    /\ resp' = Response(200, [status |-> "healthy", agent |-> "story-agent"])
    /\ nresp' = nresp + 1
    /\ pc' = "done"
    /\ UNCHANGED <<req, rpc_id, text_input, prompt, genCalls, genOutcome, content,
                 failed, groq_client>>

\* story_agent up to its first return, its except clause, or the provider call
story_agent ==
    /\ pc = "view"
    /\ req.method = "POST" /\ req.path = "/a2a/story-agent"
    /\ LET o == story_agent_try(req.data)
       IN CASE o.k = "return" ->
                 /\ resp' = o.resp
                 /\ nresp' = nresp + 1
                 /\ pc' = "done"
                 /\ UNCHANGED <<rpc_id, text_input, prompt, genCalls>>
            [] o.k = "raise" ->
                 /\ resp' = except_response(o.body_bound, req.data, o.e)
                 /\ nresp' = nresp + 1
                 /\ pc' = "done"
                 /\ UNCHANGED <<rpc_id, text_input, prompt, genCalls>>
            [] o.k = "call" ->
                 /\ rpc_id' = o.rpc_id
                 /\ text_input' = o.text_input
                 /\ prompt' = Prompt(o.text_input)
                 /\ genCalls' = genCalls + 1
                 /\ pc' = "generating"
                 /\ UNCHANGED <<resp, nresp>>
    /\ UNCHANGED <<req, genOutcome, content, failed, groq_client>>

\* the provider answers; story_agent strips the content and builds the result
generate_returns ==
    /\ pc = "generating"
    /\ genOutcome' = "returned"
    /\ \E c \in Contents, task_id \in UUIDs, context_id \in UUIDs :
         /\ task_id # context_id
         /\ content' = c
         /\ IF isinstance_str(c)
            THEN resp' = SuccessResponse(rpc_id,
                             TaskResult(task_id, context_id, "utcnow", strip(c.v)))
            ELSE resp' = except_response(TRUE, req.data, "AttributeError")
    /\ nresp' = nresp + 1
    /\ pc' = "done"
    /\ UNCHANGED <<req, rpc_id, text_input, prompt, genCalls, failed, groq_client>>

\* the provider call raises; the except clause answers
generate_raises ==
    /\ pc = "generating"
    /\ genOutcome' = "raised"
    /\ resp' = except_response(TRUE, req.data, "ProviderError")
    /\ nresp' = nresp + 1
    /\ pc' = "done"
    /\ UNCHANGED <<req, rpc_id, text_input, prompt, genCalls, content, failed, groq_client>>

\* the response is sent; the worker takes the next request
Finish ==
    /\ pc = "done"
    /\ pc' = "idle"
    /\ failed' = (failed \/ genOutcome = "raised")
    /\ req' = NoRequest
    /\ resp' = NoResponse
    /\ rpc_id' = Null
    /\ text_input' = <<>>
    /\ prompt' = <<>>
    /\ genCalls' = 0
    /\ genOutcome' = "none"
    /\ content' = Absent
    /\ nresp' = 0
    /\ UNCHANGED groq_client

Next ==
    \/ Receive
    \/ log_request
    \/ metadata
    \/ health
    \/ story_agent
    \/ generate_returns
    \/ generate_raises
    \/ Finish

Spec == Init /\ [][Next]_vars

(***************************************************************************)
(* Vocabulary of the properties, stated on the request itself.             *)
(***************************************************************************)
IsPost == req.method = "POST" /\ req.path = "/a2a/story-agent"
Answered == pc = "done"

Field(x, k) == IF x.t = "obj" /\ k \in DOMAIN x.v THEN x.v[k] ELSE Absent

\* rule 1: a JSON object with jsonrpc == "2.0" and an id field
Rule1(b) == b.t = "obj" /\ Field(b, "jsonrpc") = Str(JSONRPC_2_0) /\ Field(b, "id") # Absent
\* the id a response echoes: the request's id, null when there is none
EchoId(b) == IF Field(b, "id") = Absent THEN Null ELSE Field(b, "id")
\* rule 2
Rule2(b) == Field(b, "method") \in {Str(MESSAGE_SEND), Str(EXECUTE)}

\* rule 3: the candidate parts, Absent where the request does not hold a
\* list at the place the rule reads
PartsOfMessage(m) ==
    IF m = Absent THEN Arr(<<>>)
    ELSE IF m.t # "obj" THEN Absent
    ELSE IF Field(m, "parts") = Absent THEN Arr(<<>>)
    ELSE IF Field(m, "parts").t = "arr" THEN Field(m, "parts")
    ELSE Absent

CandidateList(b) ==
    LET p == Field(b, "params")
    IN IF p = Absent THEN Arr(<<>>)
       ELSE IF p.t # "obj" THEN Absent
       ELSE IF Field(b, "method") = Str(MESSAGE_SEND) THEN PartsOfMessage(Field(p, "message"))
       ELSE LET ms == Field(p, "messages")
            IN IF ms = Absent \/ ms = Arr(<<>>) THEN Arr(<<>>)
               ELSE IF ms.t # "arr" THEN Absent
               ELSE IF ms.v[Len(ms.v)].t # "obj" THEN Absent
               ELSE PartsOfMessage(ms.v[Len(ms.v)])

\* the candidate parts are a list of message parts (JSON objects)
HasPartsList(b) ==
    /\ CandidateList(b) # Absent
    /\ \A i \in 1..Len(CandidateList(b).v) : CandidateList(b).v[i].t = "obj"

Blank(s) == \A i \in 1..Len(s) : s[i] \in Whitespace

\* t is s without its leading and trailing whitespace
IsTrimOf(t, s) ==
    \E i \in 1..(Len(s) + 1), j \in 0..Len(s) :
        /\ t = SubSeq(s, i, j)
        /\ \A n \in 1..Len(s) : (n < i \/ n > j) => s[n] \in Whitespace
        /\ t # <<>> => (t[1] \notin Whitespace /\ t[Len(t)] \notin Whitespace)

\* rule 4: kind == "text" and text a string that is not empty once trimmed
Qualifying(p) ==
    /\ Field(p, "kind") = Str(TEXT)
    /\ Field(p, "text").t = "str"
    /\ ~Blank(Field(p, "text").v)

\* a text part without usable text, or a part of another kind
Unusable(p) ==
    \/ Field(p, "kind") # Str(TEXT)
    \/ Field(p, "text") \in {Absent, Null}
    \/ Field(p, "text").t = "str" /\ Blank(Field(p, "text").v)

QualifyingAt(b) == {i \in 1..Len(CandidateList(b).v) : Qualifying(CandidateList(b).v[i])}
FirstQualifying(b) ==
    CandidateList(b).v[CHOOSE i \in QualifyingAt(b) : \A j \in QualifyingAt(b) : i <= j]

ErrorCode(r) == IF r.source = "view" /\ "error" \in DOMAIN r.body THEN r.body.error.code ELSE 0

(***************************************************************************)
(* C1: whenever the candidate parts hold a part whose kind is "text" and   *)
(* whose text is a string that is not empty once trimmed, the generator is *)
(* called with the trimmed text of the first such part; parts before it    *)
(* are skipped and the request is not rejected.                            *)
(* The loop stops at the first text part whose text is truthy, so a        *)
(* whitespace-only or non-string text before the qualifying part ends in   *)
(* -32602 or in 500.                                                       *)
(***************************************************************************)
C1_FirstQualifyingPartUsed ==
    (/\ IsPost
     /\ pc \in {"generating", "done"}
     /\ Rule1(req.data) /\ Rule2(req.data)
     /\ HasPartsList(req.data)
     /\ QualifyingAt(req.data) # {})
    => /\ genCalls = 1
       /\ IsTrimOf(text_input, Field(FirstQualifying(req.data), "text").v)

(***************************************************************************)
(* C2: a POST whose body is not a JSON object is answered by the handler   *)
(* with 400, error code -32600 and id null.                                *)
(* get_json raises inside the try for a body that does not parse (500),    *)
(* and body.get raises again in the except clause for a parsed body that   *)
(* is not a dict, so the exception leaves the view function.               *)
(***************************************************************************)
C2_NonObjectBodyIsInvalidRequest ==
    (IsPost /\ Answered /\ req.data.t # "obj")
    => /\ resp.status = 400
       /\ resp.source = "view"
       /\ ErrorCode(resp) = -32600
       /\ resp.body.id = Null

(***************************************************************************)
(* C3: a JSON object whose jsonrpc is not "2.0" or that has no id is       *)
(* answered 400 / -32600 with the request's id (null when it has none),    *)
(* whatever method and params hold, and the generator is not called.       *)
(***************************************************************************)
C3_InvalidRequest ==
    (IsPost /\ req.data.t = "obj" /\ ~Rule1(req.data))
    => /\ genCalls = 0
       /\ pc # "generating"
       /\ Answered =>
            resp = [status |-> 400, source |-> "view",
                    body |-> [jsonrpc |-> "2.0", id |-> EchoId(req.data),
                              error |-> [code |-> -32600,
                                         message |-> "Invalid Request: jsonrpc must be '2.0' and 'id' is required."]]]

\* rule 1 fails although method and params hold a usable request
C3_Witness ==
    /\ IsPost /\ Answered
    /\ Field(req.data, "jsonrpc") = Str(JSONRPC_2_0)
    /\ Field(req.data, "id") = Absent
    /\ Field(req.data, "method") = Str(MESSAGE_SEND)
    /\ Field(req.data, "params") # Absent
    /\ HasPartsList(req.data) /\ QualifyingAt(req.data) # {}
    /\ ErrorCode(resp) = -32600

(***************************************************************************)
(* C4: a request that passes rule 1 and whose method is neither            *)
(* "message/send" nor "execute" (or is missing) is answered 400 / -32601   *)
(* with the request's id, whatever params holds, and the generator is not  *)
(* called.                                                                 *)
(***************************************************************************)
C4_UnsupportedMethod ==
    (IsPost /\ Rule1(req.data) /\ ~Rule2(req.data))
    => /\ genCalls = 0
       /\ pc # "generating"
       /\ Answered =>
            resp = [status |-> 400, source |-> "view",
                    body |-> [jsonrpc |-> "2.0", id |-> Field(req.data, "id"),
                              error |-> [code |-> -32601, message |-> "Unsupported method"]]]

\* a missing method with params that is null
C4_Witness ==
    /\ IsPost /\ Answered
    /\ Rule1(req.data)
    /\ Field(req.data, "method") = Absent
    /\ Field(req.data, "params") = Null
    /\ ErrorCode(resp) = -32601

(***************************************************************************)
(* C5: a request with valid jsonrpc / id and a supported method whose      *)
(* candidate parts hold no text part, or only text parts whose text is     *)
(* missing, empty or whitespace-only, is answered 400 / -32602 with the    *)
(* request's id, and the generator is not called.  The candidate parts are *)
(* a list of message parts; an absent or empty list, and execute with      *)
(* absent or empty messages, are among the cases.                          *)
(***************************************************************************)
C5_MissingText ==
    (/\ IsPost
     /\ Rule1(req.data) /\ Rule2(req.data)
     /\ HasPartsList(req.data)
     /\ \A i \in 1..Len(CandidateList(req.data).v) : Unusable(CandidateList(req.data).v[i]))
    => /\ genCalls = 0
       /\ pc # "generating"
       /\ Answered =>
            resp = [status |-> 400, source |-> "view",
                    body |-> [jsonrpc |-> "2.0", id |-> Field(req.data, "id"),
                              error |-> [code |-> -32602,
                                         message |-> "Missing text input in request."]]]

\* a data part followed by a text part that holds only whitespace
C5_Witness ==
    /\ IsPost /\ Answered
    /\ Rule1(req.data) /\ Rule2(req.data)
    /\ HasPartsList(req.data)
    /\ Len(CandidateList(req.data).v) = 2
    /\ Field(CandidateList(req.data).v[1], "kind") = Str(DATA)
    /\ CandidateList(req.data).v[2] = Part(Str(TEXT), Str(<<" ">>))
    /\ ErrorCode(resp) = -32602

(***************************************************************************)
(* C6: when the generator call raises, the answer is 500 with the body     *)
(* {jsonrpc: "2.0", id: the request's id, error: {code: -32603, message:   *)
(* "Internal error", data: {details: the error text}}} and no result, and  *)
(* requests that follow a failure are served as before: the client is      *)
(* untouched, GET / and GET /health answer 200 with their constants, and   *)
(* a POST whose generation succeeds answers 200.                           *)
(***************************************************************************)
C6_ProviderFailure ==
    /\ (IsPost /\ genOutcome = "raised")
       => /\ Answered
          /\ genCalls = 1
          /\ resp = [status |-> 500, source |-> "view",
                     body |-> [jsonrpc |-> "2.0", id |-> Field(req.data, "id"),
                               error |-> [code |-> -32603, message |-> "Internal error",
                                          data |-> [details |-> "ProviderError"]]]]
    /\ failed => groq_client = "Groq"
    /\ (failed /\ Answered /\ req.method = "GET" /\ req.path = "/")
       => resp = [status |-> 200, source |-> "view", body |-> AGENT_METADATA]
    /\ (failed /\ Answered /\ req.method = "GET" /\ req.path = "/health")
       => resp = [status |-> 200, source |-> "view",
                  body |-> [status |-> "healthy", agent |-> "story-agent"]]
    /\ (failed /\ Answered /\ IsPost /\ genOutcome = "returned" /\ content.t = "str")
       => /\ resp.status = 200
          /\ resp.body.id = Field(req.data, "id")

\* the generator raises again for a request that follows a failure
C6_Witness ==
    /\ failed
    /\ IsPost /\ Answered
    /\ genOutcome = "raised"
    /\ resp.status = 500
    /\ resp.body.id = Num(1)

(***************************************************************************)
(* C7: a request with jsonrpc "2.0", an id, method "message/send" and a    *)
(* text part with non-empty trimmed text is answered, for any text the     *)
(* generator returns, 200 with the request's id, state "completed", empty  *)
(* artifacts and history, and one agent text part whose text is not empty. *)
(* Stated for requests whose first part already qualifies.  The story is   *)
(* the stripped content and is never tested, so an empty or                *)
(* whitespace-only content gives a text part that is empty.                *)
(***************************************************************************)
C7_MessageSendCompletes ==
    (/\ IsPost /\ Answered
     /\ Rule1(req.data)
     /\ Field(req.data, "method") = Str(MESSAGE_SEND)
     /\ HasPartsList(req.data)
     /\ CandidateList(req.data).v # <<>>
     /\ Qualifying(CandidateList(req.data).v[1])
     /\ genOutcome = "returned"
     /\ content.t = "str")
    => /\ resp.status = 200
       /\ resp.body.id = Field(req.data, "id")
       /\ resp.body.result.status.state = "completed"
       /\ resp.body.result.artifacts = <<>>
       /\ resp.body.result.history = <<>>
       /\ resp.body.result.status.message.role = "agent"
       /\ Len(resp.body.result.status.message.parts) = 1
       /\ resp.body.result.status.message.parts[1].kind = "text"
       /\ resp.body.result.status.message.parts[1].text # <<>>

(***************************************************************************)
(* C8: with method "execute" the candidate parts are the parts of the last *)
(* element of params.messages: the generator is called only with the       *)
(* trimmed text of a qualifying part of the last element, and the outcome  *)
(* (the phrase, or the error answer) is the one of the same request with   *)
(* the earlier elements removed, also when an earlier element holds a      *)
(* usable text part and the last one does not.                             *)
(***************************************************************************)
LastOnly(b) ==
    LET ms == b.v["params"].v["messages"].v
    IN [t |-> "obj",
        v |-> [b.v EXCEPT !["params"] =
                  [t |-> "obj",
                   v |-> [b.v["params"].v EXCEPT !["messages"] = Arr(<<ms[Len(ms)]>>)]]]]

C8_OnlyLastMessage ==
    (/\ IsPost
     /\ pc \in {"generating", "done"}
     /\ Rule1(req.data)
     /\ Field(req.data, "method") = Str(EXECUTE)
     /\ Field(Field(req.data, "params"), "messages").t = "arr"
     /\ Field(Field(req.data, "params"), "messages").v # <<>>)
    => LET alone == story_agent_try(LastOnly(req.data))
       IN IF genCalls = 1
          THEN /\ alone.k = "call"
               /\ alone.text_input = text_input
               /\ alone.rpc_id = rpc_id
               /\ CandidateList(req.data) # Absent
               /\ \E i \in 1..Len(CandidateList(req.data).v) :
                     /\ Qualifying(CandidateList(req.data).v[i])
                     /\ IsTrimOf(text_input, Field(CandidateList(req.data).v[i], "text").v)
          ELSE \/ alone.k = "return" /\ resp = alone.resp
               \/ alone.k = "raise" /\ resp.status = 500 /\ resp.body.error.data.details = alone.e

\* an earlier element holds a usable text part, the last one only a data part
C8_Witness ==
    /\ IsPost /\ Answered
    /\ Rule1(req.data)
    /\ Field(req.data, "method") = Str(EXECUTE)
    /\ Field(Field(req.data, "params"), "messages").t = "arr"
    /\ Len(Field(Field(req.data, "params"), "messages").v) = 2
    /\ Field(Field(req.data, "params"), "messages").v[1] =
          Obj([parts |-> Arr(<<Part(Str(TEXT), Str(<<"a">>))>>)])
    /\ Field(Field(req.data, "params"), "messages").v[2] =
          Obj([parts |-> Arr(<<Part(Str(DATA), Absent)>>)])
    /\ ErrorCode(resp) = -32602

(***************************************************************************)
(* C9: Telex variant: a POST whose payload is not a valid Telex payload    *)
(* (is_valid_telex_payload is false) is answered 400 with the body         *)
(* {"error": "Invalid payload"}.  Stated for JSON objects without a        *)
(* jsonrpc field.  story_agent never calls is_valid_telex_payload and      *)
(* answers such a payload with the JSON-RPC -32600 envelope.               *)
(***************************************************************************)
C9_TelexInvalidPayload ==
    (/\ IsPost /\ Answered
     /\ req.data.t = "obj"
     /\ Field(req.data, "jsonrpc") = Absent
     /\ ~is_valid_telex_payload(req.data))
    => /\ resp.status = 400
       /\ resp.body = [error |-> "Invalid payload"]

(***************************************************************************)
(* C10: while one POST is handled the generator is invoked at most once    *)
(* (a failure is not retried), only after rules 1-4 have passed and with   *)
(* the prompt built from the non-empty extracted phrase; the request ends  *)
(* in exactly one response, a 400 only if the generator was never invoked  *)
(* and a 200 only if it was invoked once and returned.                     *)
(***************************************************************************)
C10_SingleGeneratorCall ==
    /\ genCalls \in {0, 1}
    /\ nresp = (IF Answered THEN 1 ELSE 0)
    /\ genOutcome # "none" => (Answered /\ genCalls = 1)
    /\ genCalls = 1
       => /\ IsPost
          /\ Rule1(req.data) /\ Rule2(req.data)
          /\ CandidateList(req.data) # Absent
          /\ \E i \in 1..Len(CandidateList(req.data).v) :
                /\ Qualifying(CandidateList(req.data).v[i])
                /\ IsTrimOf(text_input, Field(CandidateList(req.data).v[i], "text").v)
          /\ text_input # <<>>
          /\ prompt = <<"Write a short story (under 250 words) based on the phrase: '">>
                      \o text_input \o <<"'">>
    /\ (Answered /\ resp.status = 400) => genCalls = 0
    /\ (Answered /\ IsPost /\ resp.status = 200) => (genCalls = 1 /\ genOutcome = "returned")

\* the one call raised and the request was answered without a second call
C10_Witness ==
    /\ IsPost /\ Answered
    /\ genCalls = 1
    /\ genOutcome = "raised"
    /\ nresp = 1
    /\ resp.status = 500

====
